---- MODULE Spec2Model ----
(***************************************************************************)
(* Ownership model of the ReprC conversion protocol of src/main.rs.        *)
(*                                                                         *)
(* The heap is a sequence of allocations; an address is an index into it   *)
(* and names one allocation for its whole life (addresses are allocation   *)
(* identities, never reused).  Every allocation counts how often it was    *)
(* handed back to the allocator, so "freed exactly once" is frees = 1, a   *)
(* leak is frees = 0 once nothing owns it, a double free is frees = 2.     *)
(*                                                                         *)
(* Every trait method is a pure operator heap -> result that threads the   *)
(* heap through the calls the method makes, in the order the source makes  *)
(* them; the actions at the end are the callers (main and the Drop hook).  *)
(***************************************************************************)
EXTENDS Integers, Sequences, FiniteSets, TLC

\* ------------------------------------------------------------- bounds

\* longest text of the single-String cases
MaxText == 2
\* longest Vec<One> (main uses 3 elements; 2 already has "first" and "later")
MaxLen == 2
\* how many cloned reconstructions a caller makes of one foreign value
MaxClones == 2
\* most unused capacity of a Vec<u8> (Vec::with_capacity, a grown Vec)
MaxSpare == 1

\* ------------------------------------------------------------- bytes

\* the terminator byte of a C string
NUL == 0

\* The bytes texts are made of: the terminator, an ASCII letter, and the two
\* bytes of a two-byte UTF-8 sequence (0xC3 0xA9), each of which alone is
\* not valid UTF-8.
TextBytes == {NUL, 65, 195, 169}

Range(s) == {s[i] : i \in 1..Len(s)}

SeqsUpTo(S, n) == UNION {[1..k -> S] : k \in 0..n}

\* str::from_utf8 on the byte ranges that occur in TextBytes: ASCII, or a
\* lead byte C2..DF followed by a continuation byte 80..BF.
RECURSIVE IsUtf8(_)
IsUtf8(s) ==
    IF Len(s) = 0 THEN TRUE
    ELSE IF s[1] < 128 THEN IsUtf8(Tail(s))
    ELSE IF s[1] \in 194..223 /\ Len(s) >= 2 /\ s[2] \in 128..191
         THEN IsUtf8(Tail(Tail(s)))
    ELSE FALSE

\* strlen: the number of bytes before the first terminator
RECURSIVE Strlen(_)
Strlen(raw) ==
    IF Len(raw) = 0 \/ raw[1] = NUL THEN 0 ELSE 1 + Strlen(Tail(raw))

\* ------------------------------------------------------------- heap

\* the address of a Vec or String that owns no allocation (capacity 0)
Dangling == 0

Cell(bytes, elems) == [bytes |-> bytes, elems |-> elems, frees |-> 0]

\* a new allocation; its address is Len of the heap it returns
Alloc(h, bytes, elems) == Append(h, Cell(bytes, elems))

\* hand allocation p back to the allocator
Free(h, p) == [h EXCEPT ![p].frees = @ + 1]

\* RawVec's drop: deallocates only when it owns an allocation
FreeBuf(h, ptr, cap) == IF cap = 0 THEN h ELSE Free(h, ptr)

\* the initialised bytes of a String or Vec<u8>
BytesOf(h, v) == IF v.cap = 0 THEN <<>> ELSE SubSeq(h[v.ptr].bytes, 1, v.len)

\* the elements of a Vec<One> or of a foreign (ptr, len, cap) array
ElemsOf(h, v) == IF v.cap = 0 THEN <<>> ELSE SubSeq(h[v.ptr].elems, 1, v.len)

Ok(h, val) == [ok |-> TRUE, val |-> val, err |-> [t |-> "none"], h |-> h]
Err(h, err) == [ok |-> FALSE, val |-> [t |-> "none"], err |-> err, h |-> h]

\* ------------------------------------------------------------- errors

\* StringError: Utf8 owns nothing, Null owns the rejected bytes (NulError
\* keeps the Vec<u8>), IntoString owns the CString it could not convert.
Utf8Error == [t |-> "Utf8", ptr |-> Dangling]
Null(p) == [t |-> "Null", ptr |-> p]
IntoString(p) == [t |-> "IntoString", ptr |-> p]

DropStringError(h, e) ==
    IF e.t \in {"Null", "IntoString"} THEN Free(h, e.ptr) ELSE h

\* IpcError
IpcStringError(e) == [t |-> "StringError", e |-> e]
U8Error == [t |-> "U8Error"]

DropIpcError(h, e) ==
    IF e.t = "StringError" THEN DropStringError(h, e.e) ELSE h

\* a From conversion that maps a StringError to the wrong variant
WrapString_AsU8(r) == IF r.ok THEN r ELSE Err(r.h, U8Error)

\* the ? operator's From conversion into IpcError
WrapString(r) == IF r.ok THEN r ELSE Err(r.h, IpcStringError(r.err))
WrapU8(r) == IF r.ok THEN r ELSE Err(r.h, U8Error)

\* ------------------------------------------------------------- String

DropString(h, s) == FreeBuf(h, s.ptr, s.cap)

\* a conversion that skips the terminator check (CString::from_vec_unchecked)
StringIntoReprC_Unchecked(h, s) ==
    IF s.cap = 0
    THEN LET h1 == Alloc(h, <<NUL>>, <<>>) IN Ok(h1, Len(h1))
    ELSE Ok([h EXCEPT ![s.ptr].bytes = Append(BytesOf(h, s), NUL)], s.ptr)

\* CString::new(self)?.into_raw()
StringIntoReprC(h, s) ==
    LET bytes == BytesOf(h, s) IN
    IF NUL \in Range(bytes) THEN Err(h, Null(s.ptr))
    ELSE IF s.cap = 0
         THEN LET h1 == Alloc(h, <<NUL>>, <<>>) IN Ok(h1, Len(h1))
    ELSE Ok([h EXCEPT ![s.ptr].bytes = Append(bytes, NUL)], s.ptr)

\* a reconstruction that keeps the terminator in the text
StringFromReprCOwned_WithNul(h, p, stale) ==
    LET n == Strlen(h[p].bytes)
        valid == IF h[p].frees > 0 THEN stale
                 ELSE IsUtf8(SubSeq(h[p].bytes, 1, n))
    IN  IF valid THEN Ok(h, [ptr |-> p, len |-> n + 1, cap |-> n + 1])
        ELSE Err(h, IntoString(p))

\* a reconstruction that validates through a borrow (CStr::to_str), so
\* that its error owns nothing
StringFromReprCOwned_Borrows(h, p, stale) ==
    LET n == Strlen(h[p].bytes)
        valid == IF h[p].frees > 0 THEN stale
                 ELSE IsUtf8(SubSeq(h[p].bytes, 1, n))
    IN  IF valid THEN Ok(h, [ptr |-> p, len |-> n, cap |-> n + 1])
        ELSE Err(h, Utf8Error)

\* CString::from_raw(*c).into_string()?   `stale` is what a read of freed
\* memory yields: its old text (TRUE) or bytes that are no text (FALSE).
StringFromReprCOwned(h, p, stale) ==
    LET n == Strlen(h[p].bytes)
        valid == IF h[p].frees > 0 THEN stale
                 ELSE IsUtf8(SubSeq(h[p].bytes, 1, n))
    IN  IF valid THEN Ok(h, [ptr |-> p, len |-> n, cap |-> n + 1])
        ELSE Err(h, IntoString(p))

\* a cloned reconstruction that takes the buffer over instead of copying it
StringFromReprCCloned_Takes(h, p) ==
    LET n == Strlen(h[p].bytes)
    IN  IF ~IsUtf8(SubSeq(h[p].bytes, 1, n)) THEN Err(h, Utf8Error)
        ELSE Ok(h, [ptr |-> p, len |-> n, cap |-> n + 1])

\* CStr::from_ptr(*c).to_str()?.to_owned()
StringFromReprCCloned(h, p) ==
    LET n == Strlen(h[p].bytes)
        txt == SubSeq(h[p].bytes, 1, n)
    IN  IF ~IsUtf8(txt) THEN Err(h, Utf8Error)
        ELSE IF n = 0 THEN Ok(h, [ptr |-> Dangling, len |-> 0, cap |-> 0])
        ELSE LET h1 == Alloc(h, txt, <<>>)
             IN  Ok(h1, [ptr |-> Len(h1), len |-> n, cap |-> n])

\* ------------------------------------------------------------- Vec<u8>

DropVecU8(h, v) == FreeBuf(h, v.ptr, v.cap)

VecU8IntoReprC(h, v) == Ok(h, [ptr |-> v.ptr, len |-> v.len, cap |-> v.cap])

\* a reconstruction that passes the length where the capacity belongs
VecU8FromReprCOwned_LenAsCap(h, c) ==
    Ok(h, [ptr |-> c.ptr, len |-> c.len, cap |-> c.len])

VecU8FromReprCOwned(h, c) == Ok(h, [ptr |-> c.ptr, len |-> c.len, cap |-> c.cap])

VecU8FromReprCCloned(h, c) ==
    IF c.len = 0 THEN Ok(h, [ptr |-> Dangling, len |-> 0, cap |-> 0])
    ELSE LET h1 == Alloc(h, SubSeq(h[c.ptr].bytes, 1, c.len), <<>>)
         IN  Ok(h1, [ptr |-> Len(h1), len |-> c.len, cap |-> c.len])

\* ------------------------------------------------------------- One

DropOne(h, one) == DropString(h, one.a)

\* a OneFfi with a destructor that frees its text
DropOneFfi_Frees(h, f) == Free(h, f.a)

\* a OneFfi with a hook like TwoFfi's: reconstruct the text, discard it
DropOneFfi_Reclaims(h, f) ==
    LET r == StringFromReprCOwned(h, f.a, TRUE)
    IN  IF r.ok THEN DropString(r.h, r.val) ELSE DropStringError(r.h, r.err)

\* OneFfi has no Drop impl: a OneFfi that goes out of scope frees nothing
DropOneFfi(h, f) == h

OneIntoReprC(h, one) ==
    LET r == WrapString(StringIntoReprC(h, one.a))
    IN  IF r.ok THEN Ok(r.h, [a |-> r.val]) ELSE r

OneFromReprCOwned(h, f, stale) ==
    LET r == WrapString(StringFromReprCOwned(h, f.a, stale))
    IN  IF r.ok THEN Ok(r.h, [a |-> r.val]) ELSE r

OneFromReprCCloned(h, f) ==
    LET r == WrapString(StringFromReprCCloned(h, f.a))
    IN  IF r.ok THEN Ok(r.h, [a |-> r.val]) ELSE r

\* ------------------------------------------------------------- Vec<One>

RECURSIVE DropOnes(_, _)
DropOnes(h, elts) ==
    IF Len(elts) = 0 THEN h ELSE DropOnes(DropOne(h, elts[1]), Tail(elts))

RECURSIVE DropOneFfis(_, _)
DropOneFfis(h, elts) ==
    IF Len(elts) = 0 THEN h ELSE DropOneFfis(DropOneFfi(h, elts[1]), Tail(elts))

\* drop of a Vec<One>: its elements, then its buffer
DropVecOne(h, v) == FreeBuf(DropOnes(h, ElemsOf(h, v)), v.ptr, v.cap)

\* drop of a Vec<OneFfi> whose buffer is (ptr, cap) and whose elements are elts
DropVecOneFfi(h, ptr, cap, elts) == FreeBuf(DropOneFfis(h, elts), ptr, cap)

\* Vec::with_capacity(n): no allocation for n = 0
WithCapacity(h, n) ==
    IF n = 0 THEN [h |-> h, ptr |-> Dangling, cap |-> 0]
    ELSE LET h1 == Alloc(h, <<>>, <<>>) IN [h |-> h1, ptr |-> Len(h1), cap |-> n]

\* v.push(x) into the buffer at ptr
Push(h, ptr, x) == [h EXCEPT ![ptr].elems = Append(@, x)]

\* the loop of Vec<T>::into_repr_c from element i on: self is the native
\* vector (its elements elts), (vp, vcap) the foreign array being filled.
\* On the `?` return the locals are dropped: v (a Vec<OneFfi>) and the
\* iterator over self with the elements it has not yet yielded.
RECURSIVE VecIntoLoop(_, _, _, _, _, _)
VecIntoLoop(h, self, elts, i, vp, vcap) ==
    IF i > Len(elts)
    THEN Ok(FreeBuf(h, self.ptr, self.cap),
            [ptr |-> vp, len |-> Len(elts), cap |-> vcap])
    ELSE LET r == OneIntoReprC(h, elts[i]) IN
         IF ~r.ok
         THEN LET h1 == DropVecOneFfi(r.h, vp, vcap, SubSeq(h[vp].elems, 1, i - 1))
                  h2 == DropOnes(h1, SubSeq(elts, i + 1, Len(elts)))
              IN  Err(FreeBuf(h2, self.ptr, self.cap), r.err)
         ELSE VecIntoLoop(Push(r.h, vp, r.val), self, elts, i + 1, vp, vcap)

VecOneIntoReprC(h, self) ==
    LET v == WithCapacity(h, self.len)
    IN  VecIntoLoop(v.h, self, ElemsOf(h, self), 1, v.ptr, v.cap)

\* the loop of Vec<T>::from_repr_c_owned from element i on: c is the
\* foreign triple (v_ffi, its elements elts), (vp, vcap) the native vector
\* being filled.  Each elt goes out of scope at the end of its iteration.
RECURSIVE VecFromOwnedLoop(_, _, _, _, _, _, _)
VecFromOwnedLoop(h, c, elts, i, vp, vcap, stale) ==
    IF i > Len(elts)
    THEN Ok(FreeBuf(h, c.ptr, c.cap),
            [ptr |-> vp, len |-> Len(elts), cap |-> vcap])
    ELSE LET r == OneFromReprCOwned(h, elts[i], stale) IN
         IF ~r.ok
         THEN LET h1 == DropOneFfi(r.h, elts[i])
                  h2 == DropVecOne(h1, [ptr |-> vp, len |-> i - 1, cap |-> vcap])
                  h3 == DropVecOneFfi(h2, c.ptr, c.cap, SubSeq(elts, i + 1, Len(elts)))
              IN  Err(h3, r.err)
         ELSE VecFromOwnedLoop(DropOneFfi(Push(r.h, vp, r.val), elts[i]),
                               c, elts, i + 1, vp, vcap, stale)

Reverse(s) == [i \in 1..Len(s) |-> s[Len(s) + 1 - i]]

\* a reconstruction that walks the foreign array from its end
VecOneFromReprCOwned_Reversed(h, c, stale) ==
    LET v == WithCapacity(h, c.len)
    IN  VecFromOwnedLoop(v.h, c, Reverse(ElemsOf(h, c)), 1, v.ptr, v.cap, stale)

VecOneFromReprCOwned(h, c, stale) ==
    LET v == WithCapacity(h, c.len)
    IN  VecFromOwnedLoop(v.h, c, ElemsOf(h, c), 1, v.ptr, v.cap, stale)

\* the loop of Vec<T>::from_repr_c_cloned: slice_ffi is borrowed
RECURSIVE VecFromClonedLoop(_, _, _, _, _)
VecFromClonedLoop(h, elts, i, vp, vcap) ==
    IF i > Len(elts)
    THEN Ok(h, [ptr |-> vp, len |-> Len(elts), cap |-> vcap])
    ELSE LET r == OneFromReprCCloned(h, elts[i]) IN
         IF ~r.ok
         THEN Err(DropVecOne(r.h, [ptr |-> vp, len |-> i - 1, cap |-> vcap]), r.err)
         ELSE VecFromClonedLoop(Push(r.h, vp, r.val), elts, i + 1, vp, vcap)

VecOneFromReprCCloned(h, c) ==
    LET elts == IF c.len = 0 THEN <<>> ELSE SubSeq(h[c.ptr].elems, 1, c.len)
        v == WithCapacity(h, c.len)
    IN  VecFromClonedLoop(v.h, elts, 1, v.ptr, v.cap)

\* ------------------------------------------------------------- Two

DropTwo(h, two) ==
    DropOne(DropVecOne(DropVecU8(DropString(h, two.a), two.b), two.c), two.d)

TripleB(f) == [ptr |-> f.b, len |-> f.b_len, cap |-> f.b_cap]
TripleC(f) == [ptr |-> f.c, len |-> f.c_len, cap |-> f.c_cap]

\* a reconstruction that reconstructs all four fields before it looks at
\* the first error
TwoFromReprCOwned_Eager(h, f, stale) ==
    LET ra == WrapString(StringFromReprCOwned(h, f.a, stale))
        rb == WrapU8(VecU8FromReprCOwned(ra.h, TripleB(f)))
        rc == VecOneFromReprCOwned(rb.h, TripleC(f), stale)
        rd == OneFromReprCOwned(rc.h, f.d, stale)
        dropA(x) == IF ra.ok THEN DropString(x, ra.val) ELSE x
        dropB(x) == DropVecU8(x, rb.val)
        dropC(x) == IF rc.ok THEN DropVecOne(x, rc.val) ELSE DropIpcError(x, rc.err)
        dropD(x) == IF rd.ok THEN DropOne(x, rd.val) ELSE DropIpcError(x, rd.err)
    IN  IF ~ra.ok THEN Err(dropD(dropC(dropB(rd.h))), ra.err)
        ELSE IF ~rc.ok THEN Err(dropD(dropB(dropA(rd.h))), rc.err)
        ELSE IF ~rd.ok THEN Err(dropC(dropB(dropA(rd.h))), rd.err)
        ELSE Ok(rd.h, [a |-> ra.val, b |-> rb.val, c |-> rc.val, d |-> rd.val])

\* a `?` that returns early drops the fields already reconstructed
TwoFromReprCOwned(h, f, stale) ==
    LET ra == WrapString(StringFromReprCOwned(h, f.a, stale)) IN
    IF ~ra.ok THEN ra ELSE
    LET rb == WrapU8(VecU8FromReprCOwned(ra.h, TripleB(f))) IN
    IF ~rb.ok THEN Err(DropString(rb.h, ra.val), rb.err) ELSE
    LET rc == VecOneFromReprCOwned(rb.h, TripleC(f), stale) IN
    IF ~rc.ok THEN Err(DropVecU8(DropString(rc.h, ra.val), rb.val), rc.err) ELSE
    LET rd == OneFromReprCOwned(rc.h, f.d, stale) IN
    IF ~rd.ok
    THEN Err(DropVecOne(DropVecU8(DropString(rd.h, ra.val), rb.val), rc.val), rd.err)
    ELSE Ok(rd.h, [a |-> ra.val, b |-> rb.val, c |-> rc.val, d |-> rd.val])

TwoFromReprCCloned(h, f) ==
    LET ra == WrapString(StringFromReprCCloned(h, f.a)) IN
    IF ~ra.ok THEN ra ELSE
    LET rb == WrapU8(VecU8FromReprCCloned(ra.h, TripleB(f))) IN
    IF ~rb.ok THEN Err(DropString(rb.h, ra.val), rb.err) ELSE
    LET rc == VecOneFromReprCCloned(rb.h, TripleC(f)) IN
    IF ~rc.ok THEN Err(DropVecU8(DropString(rc.h, ra.val), rb.val), rc.err) ELSE
    LET rd == OneFromReprCCloned(rc.h, f.d) IN
    IF ~rd.ok
    THEN Err(DropVecOne(DropVecU8(DropString(rd.h, ra.val), rb.val), rc.val), rd.err)
    ELSE Ok(rd.h, [a |-> ra.val, b |-> rb.val, c |-> rc.val, d |-> rd.val])

\* b and c are converted first (the let statements), then a and d inside
\* the struct expression.  A `?` that returns early drops the fields of
\* self that were not moved out; what was already converted is a raw
\* pointer or a tuple of one and has no destructor.
TwoIntoReprC(h, self) ==
    LET rb == WrapU8(VecU8IntoReprC(h, self.b)) IN
    IF ~rb.ok
    THEN Err(DropOne(DropVecOne(DropString(rb.h, self.a), self.c), self.d), rb.err)
    ELSE
    LET rc == VecOneIntoReprC(rb.h, self.c) IN
    IF ~rc.ok THEN Err(DropOne(DropString(rc.h, self.a), self.d), rc.err) ELSE
    LET ra == WrapString(StringIntoReprC(rc.h, self.a)) IN
    IF ~ra.ok THEN Err(DropOne(ra.h, self.d), ra.err) ELSE
    LET rd == OneIntoReprC(ra.h, self.d) IN
    IF ~rd.ok THEN rd
    ELSE Ok(rd.h, [a |-> ra.val,
                   b |-> rb.val.ptr, b_len |-> rb.val.len, b_cap |-> rb.val.cap,
                   c |-> rc.val.ptr, c_len |-> rc.val.len, c_cap |-> rc.val.cap,
                   d |-> rd.val])

\* a hook that reclaims nothing
DropTwoFfi_Forgets(h, f, stale) == h

\* a hook that does not run on a TwoFfi whose text was already freed
DropTwoFfi_Guarded(h, f, stale) ==
    IF h[f.a].frees > 0 THEN h
    ELSE LET r == TwoFromReprCOwned(h, f, stale)
         IN  IF r.ok THEN DropTwo(r.h, r.val) ELSE DropIpcError(r.h, r.err)

\* impl Drop for TwoFfi: reconstruct, discard the result; afterwards the
\* drop glue drops the fields of the TwoFfi (raw pointers, sizes and d).
DropTwoFfi(h, f, stale) ==
    LET r == TwoFromReprCOwned(h, f, stale)
        h1 == IF r.ok THEN DropTwo(r.h, r.val) ELSE DropIpcError(r.h, r.err)
    IN  DropOneFfi(h1, f.d)

\* ------------------------------------------------------------- values

\* "text".to_string(): a String owns a buffer unless it is empty
MkString(h, bytes) ==
    IF Len(bytes) = 0 THEN [h |-> h, val |-> [ptr |-> Dangling, len |-> 0, cap |-> 0]]
    ELSE LET h1 == Alloc(h, bytes, <<>>)
         IN  [h |-> h1, val |-> [ptr |-> Len(h1), len |-> Len(bytes), cap |-> Len(bytes)]]

\* One { a: text }
MkOne(h, one) ==
    LET s == MkString(h, one.a) IN [h |-> s.h, val |-> [a |-> s.val]]

RECURSIVE MkOnes(_, _, _)
MkOnes(h, ones, done) ==
    IF Len(ones) = 0 THEN [h |-> h, val |-> done]
    ELSE LET o == MkOne(h, ones[1])
         IN  MkOnes(o.h, Tail(ones), Append(done, o.val))

\* vec![one_1, one_2, ...]
MkVecOne(h, ones) ==
    LET es == MkOnes(h, ones, <<>>) IN
    IF Len(ones) = 0 THEN [h |-> h, val |-> [ptr |-> Dangling, len |-> 0, cap |-> 0]]
    ELSE LET h1 == Alloc(es.h, <<>>, es.val)
         IN  [h |-> h1, val |-> [ptr |-> Len(h1), len |-> Len(ones), cap |-> Len(ones)]]

\* vec![10, 20, ...]
MkVecU8(h, bytes) == MkString(h, bytes)

\* a Vec<u8> with room for `spare` more bytes
MkVecU8Spare(h, bytes, spare) ==
    IF Len(bytes) + spare = 0
    THEN [h |-> h, val |-> [ptr |-> Dangling, len |-> 0, cap |-> 0]]
    ELSE LET h1 == Alloc(h, bytes, <<>>)
         IN  [h |-> h1,
              val |-> [ptr |-> Len(h1), len |-> Len(bytes), cap |-> Len(bytes) + spare]]

\* Two { a: string, b: v_u8, c: v_one, d: one }
MkTwo(h, two) ==
    LET a == MkString(h, two.a)
        d == MkOne(a.h, two.d)
        b == MkVecU8(d.h, two.b)
        c == MkVecOne(b.h, two.c)
    IN  [h |-> c.h, val |-> [a |-> a.val, b |-> b.val, c |-> c.val, d |-> d.val]]

\* A foreign value handed in from the other side of the boundary: what
\* the same conversion would have produced, except that the bytes of a
\* text are whatever the foreign side wrote before the terminator.
MkCStr(h, bytes) ==
    LET h1 == Alloc(h, Append(bytes, NUL), <<>>) IN [h |-> h1, val |-> Len(h1)]

MkOneFfi(h, one) ==
    LET s == MkCStr(h, one.a) IN [h |-> s.h, val |-> [a |-> s.val]]

RECURSIVE MkOneFfis(_, _, _)
MkOneFfis(h, ones, done) ==
    IF Len(ones) = 0 THEN [h |-> h, val |-> done]
    ELSE LET o == MkOneFfi(h, ones[1])
         IN  MkOneFfis(o.h, Tail(ones), Append(done, o.val))

MkVecOneFfi(h, ones) ==
    LET es == MkOneFfis(h, ones, <<>>) IN
    IF Len(ones) = 0 THEN [h |-> h, val |-> [ptr |-> Dangling, len |-> 0, cap |-> 0]]
    ELSE LET h1 == Alloc(es.h, <<>>, es.val)
         IN  [h |-> h1, val |-> [ptr |-> Len(h1), len |-> Len(ones), cap |-> Len(ones)]]

MkTwoFfi(h, two) ==
    LET a == MkCStr(h, two.a)
        d == MkOneFfi(a.h, two.d)
        b == MkVecU8(d.h, two.b)
        c == MkVecOneFfi(b.h, two.c)
    IN  [h |-> c.h,
         val |-> [a |-> a.val,
                  b |-> b.val.ptr, b_len |-> b.val.len, b_cap |-> b.val.cap,
                  c |-> c.val.ptr, c_len |-> c.val.len, c_cap |-> c.val.cap,
                  d |-> d.val]]

\* what a native value says, read through the heap
ViewString(h, s) == BytesOf(h, s)
ViewOne(h, one) == [a |-> ViewString(h, one.a)]
ViewVecOne(h, v) == [i \in 1..v.len |-> ViewOne(h, ElemsOf(h, v)[i])]
ViewTwo(h, two) ==
    [a |-> ViewString(h, two.a), b |-> BytesOf(h, two.b),
     c |-> ViewVecOne(h, two.c), d |-> ViewOne(h, two.d)]

\* the allocations a native value owns
OwnedString(s) == IF s.cap = 0 THEN {} ELSE {s.ptr}
OwnedOne(one) == OwnedString(one.a)
OwnedVecOne(h, v) ==
    IF v.cap = 0 THEN {}
    ELSE {v.ptr} \cup UNION {OwnedOne(ElemsOf(h, v)[i]) : i \in 1..v.len}
OwnedTwo(h, two) ==
    OwnedString(two.a) \cup OwnedString(two.b) \cup OwnedVecOne(h, two.c)
        \cup OwnedOne(two.d)

\* the allocations reachable from a foreign value
ReachOneFfi(f) == {f.a}
ReachVecOneFfi(h, c) ==
    IF c.cap = 0 THEN {}
    ELSE {c.ptr} \cup {ElemsOf(h, c)[i].a : i \in 1..c.len}
ReachTwoFfi(h, f) ==
    {f.a} \cup OwnedString(TripleB(f)) \cup ReachVecOneFfi(h, TripleC(f))
        \cup ReachOneFfi(f.d)

\* ------------------------------------------------------------- the trait

\* the implementors of ReprC
Types == {"String", "VecU8", "VecOne", "One", "Two"}

\* String::C is a bare *mut c_char; the caller holds it in a one-field cell
IntoReprC(t, h, v) ==
    CASE t = "String" ->
            LET r == StringIntoReprC(h, v)
            IN  IF r.ok THEN Ok(r.h, [raw |-> r.val]) ELSE r
      [] t = "VecU8"  -> VecU8IntoReprC(h, v)
      [] t = "VecOne" -> VecOneIntoReprC(h, v)
      [] t = "One"    -> OneIntoReprC(h, v)
      [] t = "Two"    -> TwoIntoReprC(h, v)

FromReprCOwned(t, h, f, stale) ==
    CASE t = "String" -> StringFromReprCOwned(h, f.raw, stale)
      [] t = "VecU8"  -> VecU8FromReprCOwned(h, f)
      [] t = "VecOne" -> VecOneFromReprCOwned(h, f, stale)
      [] t = "One"    -> OneFromReprCOwned(h, f, stale)
      [] t = "Two"    -> TwoFromReprCOwned(h, f, stale)

FromReprCCloned(t, h, f) ==
    CASE t = "String" -> StringFromReprCCloned(h, f.raw)
      [] t = "VecU8"  -> VecU8FromReprCCloned(h, f)
      [] t = "VecOne" -> VecOneFromReprCCloned(h, f)
      [] t = "One"    -> OneFromReprCCloned(h, f)
      [] t = "Two"    -> TwoFromReprCCloned(h, f)

\* drop of a native value of type t
DropNative(t, h, v) ==
    CASE t = "String" -> DropString(h, v)
      [] t = "VecU8"  -> DropVecU8(h, v)
      [] t = "VecOne" -> DropVecOne(h, v)
      [] t = "One"    -> DropOne(h, v)
      [] t = "Two"    -> DropTwo(h, v)

\* drop of a value of t's Error type
DropError(t, h, e) ==
    CASE t = "String" -> DropStringError(h, e)
      [] t = "VecU8"  -> h
      [] OTHER        -> DropIpcError(h, e)

\* a Drop impl on OneFfi as well
HasDropHook_All(t) == t \in {"One", "Two"}

\* the foreign types with a Drop impl
HasDropHook(t) == t = "Two"

\* a foreign value of t's C type goes out of scope
DropFfi(t, h, f, stale) ==
    CASE t = "Two" -> DropTwoFfi(h, f, stale)
      [] t = "One" -> DropOneFfi(h, f)
      [] OTHER     -> h

\* a reconstruction that nulls the text pointer of the TwoFfi it consumed
AfterFromReprCOwned_Nulled(t, h, f) ==
    IF t = "Two" THEN [f EXCEPT !.a = Dangling] ELSE f

\* what *c holds when from_repr_c_owned returns: the fields are read
\* through the pointer, none is written
AfterFromReprCOwned(t, h, f) == f

\* forgetting a borrow of two_ffi leaves two_ffi itself to be dropped
MemForget_Borrowed(t, f) == FALSE

\* mem::forget(two_ffi) moves two_ffi out: whether the local is moved-out
\* afterwards, so that no destructor runs for it at the end of its scope
MemForget(t, f) == TRUE

View(t, h, v) ==
    CASE t = "String" -> ViewString(h, v)
      [] t = "VecU8"  -> BytesOf(h, v)
      [] t = "VecOne" -> ViewVecOne(h, v)
      [] t = "One"    -> ViewOne(h, v)
      [] t = "Two"    -> ViewTwo(h, v)

Owned(t, h, v) ==
    CASE t = "String" -> OwnedString(v)
      [] t = "VecU8"  -> OwnedString(v)
      [] t = "VecOne" -> OwnedVecOne(h, v)
      [] t = "One"    -> OwnedOne(v)
      [] t = "Two"    -> OwnedTwo(h, v)

Reach(t, h, f) ==
    CASE t = "String" -> {f.raw}
      [] t = "VecU8"  -> OwnedString(f)
      [] t = "VecOne" -> ReachVecOneFfi(h, f)
      [] t = "One"    -> ReachOneFfi(f)
      [] t = "Two"    -> ReachTwoFfi(h, f)

\* ------------------------------------------------------------- inputs

\* texts a String can hold (valid UTF-8, possibly with a terminator inside)
NativeTexts == {<<65>>, <<195, 169>>, <<65, NUL>>}
\* texts a foreign buffer can hold before its terminator (possibly no UTF-8)
ForeignTexts == {<<65>>, <<195, 169>>, <<169>>}

Texts(o) == IF o = "native" THEN NativeTexts ELSE ForeignTexts

Inputs(t, o) ==
    CASE t = "String" ->
            IF o = "native" THEN {s \in SeqsUpTo(TextBytes, MaxText) : IsUtf8(s)}
            ELSE SeqsUpTo(TextBytes \ {NUL}, MaxText)
      [] t = "VecU8"  -> [bytes : SeqsUpTo({10, 20}, MaxText), spare : 0..MaxSpare]
      [] t = "One"    -> [a : Texts(o)]
      [] t = "VecOne" -> SeqsUpTo([a : Texts(o)], MaxLen)
      [] t = "Two"    -> [a : Texts(o), b : {<<>>, <<10, 20, 30, 40, 50>>},
                          c : SeqsUpTo([a : Texts(o)], MaxLen), d : [a : Texts(o)]]

MkNative(t, in) ==
    CASE t = "String" -> MkString(<<>>, in)
      [] t = "VecU8"  -> MkVecU8Spare(<<>>, in.bytes, in.spare)
      [] t = "VecOne" -> MkVecOne(<<>>, in)
      [] t = "One"    -> MkOne(<<>>, in)
      [] t = "Two"    -> MkTwo(<<>>, in)

MkForeign(t, in) ==
    CASE t = "String" -> LET s == MkCStr(<<>>, in) IN [h |-> s.h, val |-> [raw |-> s.val]]
      [] t = "VecU8"  -> MkVecU8Spare(<<>>, in.bytes, in.spare)
      [] t = "VecOne" -> MkVecOneFfi(<<>>, in)
      [] t = "One"    -> MkOneFfi(<<>>, in)
      [] t = "Two"    -> MkTwoFfi(<<>>, in)

\* ------------------------------------------------------------- state

VARIABLES
    heap,      \* the allocations made so far
    ty,        \* the implementor of ReprC the caller works with
    origin,    \* "native": the caller starts from a native value;
               \* "foreign": it is handed a foreign value
    input,     \* what that value says
    nat,       \* the native value the caller holds before into_repr_c
    ffi,       \* the foreign value (two_ffi in main); its bits stay readable
               \* here after it is forgotten or dropped
    res,       \* the Result the caller holds
    clones,    \* the Results of from_repr_c_cloned the caller holds
    made,      \* how many cloned reconstructions were made
    explicit,  \* from_repr_c_owned was called explicitly
    moved,     \* two_ffi was moved out (forgotten): scope exit drops nothing
    hooks,     \* how often a Drop hook has fired
    pc         \* where the caller is

vars == <<heap, ty, origin, input, nat, ffi, res, clones, made, explicit, moved, hooks, pc>>

None == [t |-> "none"]

Held(r) == [ok |-> r.ok, val |-> r.val, err |-> r.err]

DropHeld(t, h, r) == IF r.ok THEN DropNative(t, h, r.val) ELSE DropError(t, h, r.err)

RECURSIVE DropAllHeld(_, _, _)
DropAllHeld(t, h, rs) ==
    IF Len(rs) = 0 THEN h ELSE DropAllHeld(t, DropHeld(t, h, rs[1]), Tail(rs))

DoubleFreed(h) == \E p \in 1..Len(h) : h[p].frees >= 2

Init ==
    \E t \in Types, o \in {"native", "foreign"} :
      \E in \in Inputs(t, o) :
        LET m == IF o = "native" THEN MkNative(t, in) ELSE MkForeign(t, in) IN
        /\ ty = t /\ origin = o /\ input = in
        /\ heap = m.h
        /\ nat = IF o = "native" THEN m.val ELSE None
        /\ ffi = IF o = "native" THEN None ELSE m.val
        /\ pc = IF o = "native" THEN "native" ELSE "foreign"
        /\ res = None /\ clones = <<>> /\ made = 0
        /\ explicit = FALSE /\ moved = FALSE /\ hooks = 0

\* let mut two_ffi = two.into_repr_c()
CallIntoReprC ==
    /\ pc = "native"
    /\ LET r == IntoReprC(ty, heap, nat) IN
       /\ heap' = r.h
       /\ nat' = None
       /\ ffi' = IF r.ok THEN r.val ELSE None
       /\ res' = IF r.ok THEN None ELSE Held(r)
       /\ pc' = IF r.ok THEN "foreign" ELSE "failed"
    /\ UNCHANGED <<ty, origin, input, clones, made, explicit, moved, hooks>>

\* T::from_repr_c_cloned(&two_ffi), the result kept
CallFromReprCCloned ==
    /\ pc = "foreign" /\ made < MaxClones
    /\ LET r == FromReprCCloned(ty, heap, ffi) IN
       /\ heap' = r.h
       /\ clones' = Append(clones, Held(r))
    /\ made' = made + 1
    /\ UNCHANGED <<ty, origin, input, nat, ffi, res, explicit, moved, hooks, pc>>

\* the kept clones go out of scope
DropClones ==
    /\ pc = "foreign" /\ clones # <<>>
    /\ heap' = DropAllHeld(ty, heap, clones)
    /\ clones' = <<>>
    /\ UNCHANGED <<ty, origin, input, nat, ffi, res, made, explicit, moved, hooks, pc>>

\* Two::from_repr_c_owned(&mut two_ffi)
CallFromReprCOwned ==
    /\ pc = "foreign" /\ clones = <<>>
    /\ LET r == FromReprCOwned(ty, heap, ffi, TRUE) IN
       /\ heap' = r.h
       /\ res' = Held(r)
       /\ ffi' = AfterFromReprCOwned(ty, r.h, ffi)
    /\ explicit' = TRUE
    /\ pc' = "reconstructed"
    /\ UNCHANGED <<ty, origin, input, nat, clones, made, moved, hooks>>

\* `let _ = ...` / unwrap(): the Result the caller holds is dropped
DropResult ==
    /\ pc \in {"failed", "reconstructed"}
    /\ heap' = DropHeld(ty, heap, res)
    /\ res' = None
    /\ pc' = IF pc = "failed" THEN "done" ELSE "reclaimed"
    /\ UNCHANGED <<ty, origin, input, nat, ffi, clones, made, explicit, moved, hooks>>

\* mem::forget(two_ffi)
Forget ==
    /\ pc = "reclaimed"
    /\ moved' = MemForget(ty, ffi)
    /\ pc' = "forgotten"
    /\ UNCHANGED <<heap, ty, origin, input, nat, ffi, res, clones, made, explicit, hooks>>

\* the end of main: two_ffi goes out of scope and, unless it was moved
\* out, is dropped, with or without an explicit reconstruction before it.
\* A hook that runs on memory that was already freed is undefined
\* behaviour: what it reads is its old content or not (stale), and the
\* allocator may or may not abort the process (abort).
ScopeExit ==
    /\ pc \in {"foreign", "reclaimed", "forgotten"} /\ clones = <<>>
    /\ \E stale \in BOOLEAN, abort \in BOOLEAN :
         /\ heap' = IF moved THEN heap ELSE DropFfi(ty, heap, ffi, stale)
         /\ pc' = IF abort /\ DoubleFreed(heap') THEN "aborted" ELSE "done"
    /\ hooks' = hooks + (IF ~moved /\ HasDropHook(ty) THEN 1 ELSE 0)
    /\ UNCHANGED <<ty, origin, input, nat, ffi, res, clones, made, explicit, moved>>

Next ==
    \/ CallIntoReprC
    \/ CallFromReprCCloned
    \/ DropClones
    \/ CallFromReprCOwned
    \/ DropResult
    \/ Forget
    \/ ScopeExit

Spec == Init /\ [][Next]_vars

\* ------------------------------------------------------------- properties

\* main ran to its end on one of its two paths: the hook alone, or an
\* explicit reconstruction followed by mem::forget
MainCompleted ==
    /\ ty = "Two" /\ origin = "native" /\ pc = "done" /\ ffi # None
    /\ explicit <=> moved

\* C1: exactly-once reclaim.  For a Two converted with Two::into_repr_c,
\* when main has completed on either path (Drop hook alone, or explicit
\* from_repr_c_owned then mem::forget), every allocation reachable from
\* the TwoFfi was freed exactly once.
C1_ExactlyOnceReclaim ==
    MainCompleted => \A p \in Reach(ty, heap, ffi) : heap[p].frees = 1

C1_Witness ==
    /\ MainCompleted /\ ~explicit /\ hooks = 1
    /\ Len(input.c) >= 2 /\ input.b # <<>>
    /\ Cardinality(Reach(ty, heap, ffi)) >= 6

\* C2: once a Two was converted, explicitly reconstructed and the TwoFfi
\* passed to mem::forget, the Drop hook never fires afterwards (not at the
\* end of main either) and no allocation is freed a second time.
C2_ForgetSuppressesHook ==
    /\ [](ty = "Two" /\ pc = "forgotten" => hooks = 0 /\ ~DoubleFreed(heap))
    /\ [][ty = "Two" /\ pc = "forgotten" => hooks' = hooks /\ heap' = heap]_vars

C2_Witness ==
    /\ ty = "Two" /\ origin = "native" /\ explicit /\ moved /\ pc = "done"
    /\ hooks = 0 /\ Len(input.c) >= 1

\* C3: when a TwoFfi goes out of scope without an explicit reconstruction,
\* after its Drop hook no allocation reachable from it remains un-freed,
\* whatever the reconstruction inside the hook returned.
C3_HookLeavesNothing ==
    ty = "Two" /\ pc = "done" /\ ~explicit /\ hooks = 1
        => \A p \in Reach(ty, heap, ffi) : heap[p].frees >= 1

\* C4: when Two::from_repr_c_owned was called explicitly and the TwoFfi was
\* not passed to mem::forget, the Drop hook still runs at the end of its
\* scope, on the same pointers, and an allocation that was already freed
\* (the text of a, at least) is freed a second time.
C4_MissedSuppressionDoubleFrees ==
    ty = "Two" /\ explicit /\ ~moved /\ pc \in {"done", "aborted"}
        => hooks = 1 /\ heap[ffi.a].frees = 2

C4_Witness ==
    /\ ty = "Two" /\ origin = "native" /\ explicit /\ ~moved /\ pc = "done"
    /\ \A p \in Reach(ty, heap, ffi) : heap[p].frees = 2
    /\ Len(input.c) >= 1 /\ input.b # <<>>

\* the last Result of from_repr_c_cloned
LastClone(cs) == cs[Len(cs)]

\* C5: from_repr_c_cloned does not consume.  A call leaves every
\* allocation that existed before it as it was (nothing freed, no byte
\* changed) and leaves the foreign value to its holder; the native value it
\* returns owns only allocations made by the call; while the foreign value
\* is held nothing reachable from it is freed; and two clones of the same
\* foreign value have the same outcome and say the same.
C5_ClonedDoesNotConsume ==
    /\ [][made' = made + 1 =>
            /\ SubSeq(heap', 1, Len(heap)) = heap
            /\ ffi' = ffi /\ pc' = pc
            /\ LastClone(clones').ok =>
                 /\ Owned(ty, heap', LastClone(clones').val)
                      \subseteq (Len(heap) + 1)..Len(heap')
                 /\ \A p \in Owned(ty, heap', LastClone(clones').val) :
                      heap'[p].frees = 0]_vars
    /\ [](pc = "foreign" => \A p \in Reach(ty, heap, ffi) : heap[p].frees = 0)
    /\ [](Len(clones) >= 2 =>
            /\ clones[1].ok = clones[2].ok
            /\ clones[1].ok =>
                 /\ View(ty, heap, clones[1].val) = View(ty, heap, clones[2].val)
                 /\ Owned(ty, heap, clones[1].val)
                      \cap Owned(ty, heap, clones[2].val) = {})

C5_Witness ==
    /\ ty = "Two" /\ pc = "foreign" /\ Len(clones) = 2
    /\ clones[1].ok /\ clones[2].ok
    /\ Len(input.c) >= 2 /\ input.b # <<>>

\* C6: text round trip.  For a String without a terminator byte,
\* into_repr_c succeeds and from_repr_c_owned on its result succeeds with
\* a String that says what the original said.
C6_TextRoundTrip ==
    ty = "String" /\ origin = "native" /\ NUL \notin Range(input)
        => /\ pc # "failed"
           /\ pc = "reconstructed" => res.ok /\ View(ty, heap, res.val) = input

C6_Witness ==
    /\ ty = "String" /\ origin = "native" /\ pc = "reconstructed"
    /\ res.ok /\ Len(input) = 2 /\ input[1] >= 128

NoNulOnes(ones) == \A i \in 1..Len(ones) : NUL \notin Range(ones[i].a)

\* C7: sequence round trip.  For a Vec<One> of terminator-free texts (of
\* any length, zero included) into_repr_c then from_repr_c_owned succeed
\* and yield a sequence of the same length with the same elements in the
\* same order; the reconstruction takes each element's text over exactly
\* once (the i-th text of the foreign array is owned by the i-th element of
\* the result and by nothing else, and it is freed once when the result is
\* dropped), and the foreign array is freed once.
C7_SequenceRoundTrip ==
    ty = "VecOne" /\ origin = "native" /\ NoNulOnes(input)
        => /\ pc # "failed"
           /\ pc = "reconstructed" =>
                /\ res.ok
                /\ res.val.len = Len(input)
                /\ View(ty, heap, res.val) = input
                /\ \A i \in 1..Len(input) :
                     /\ ElemsOf(heap, res.val)[i].a.ptr = ElemsOf(heap, ffi)[i].a
                     /\ heap[ElemsOf(heap, ffi)[i].a].frees = 0
                /\ ffi.cap > 0 => heap[ffi.ptr].frees = 1
           /\ explicit /\ pc \in {"reclaimed", "forgotten", "done"} =>
                \A p \in Reach(ty, heap, ffi) : heap[p].frees = 1

C7_Witness ==
    /\ ty = "VecOne" /\ origin = "native" /\ pc = "reclaimed"
    /\ Len(input) >= 2 /\ input[1] # input[2]

NoNulTwo(two) ==
    /\ NUL \notin Range(two.a) /\ NUL \notin Range(two.d.a) /\ NoNulOnes(two.c)

\* C8: aggregate round trip.  For a Two whose texts hold no terminator
\* byte, into_repr_c then from_repr_c_owned succeed and yield a Two that is
\* field-wise equal to the original: a, the bytes of b in order, the
\* elements of c in order, d.
C8_AggregateRoundTrip ==
    ty = "Two" /\ origin = "native" /\ NoNulTwo(input)
        => /\ pc # "failed"
           /\ pc = "reconstructed" =>
                /\ res.ok
                /\ ViewString(heap, res.val.a) = input.a
                /\ BytesOf(heap, res.val.b) = input.b
                /\ ViewVecOne(heap, res.val.c) = input.c
                /\ ViewOne(heap, res.val.d) = input.d

C8_Witness ==
    /\ ty = "Two" /\ origin = "native" /\ pc = "reconstructed" /\ res.ok
    /\ BytesOf(heap, res.val.b) = <<10, 20, 30, 40, 50>>
    /\ Len(input.c) >= 2 /\ input.c[1] # input.c[2] /\ input.a # input.d.a

\* C9: interior terminator rejection.  String::into_repr_c on a text with
\* a terminator byte inside returns StringError::Null, hands out no
\* pointer, and once the error is discarded every allocation was freed.
C9_InteriorTerminatorRejected ==
    ty = "String" /\ origin = "native" /\ NUL \in Range(input)
        => /\ pc \in {"native", "failed", "done"}
           /\ ffi = None
           /\ pc = "failed" => ~res.ok /\ res.err.t = "Null"
           /\ pc = "done" => \A p \in 1..Len(heap) : heap[p].frees = 1

C9_Witness ==
    /\ ty = "String" /\ origin = "native" /\ pc = "done"
    /\ Len(input) = 2 /\ input[2] = NUL /\ Len(heap) = 1

\* C10: malformed foreign text.  String::from_repr_c_owned on a buffer
\* whose bytes are not valid text returns the encoding error
\* (StringError::IntoString), which owns the buffer; the buffer is freed
\* exactly once, when the error is discarded, and stays freed once.
C10_MalformedTextConsumed ==
    ty = "String" /\ origin = "foreign" /\ ~IsUtf8(input)
        => /\ pc = "reconstructed" =>
                /\ ~res.ok /\ res.err.t = "IntoString" /\ res.err.ptr = ffi.raw
                /\ heap[ffi.raw].frees = 0
           /\ explicit /\ pc # "reconstructed" => heap[ffi.raw].frees = 1

C10_Witness ==
    /\ ty = "String" /\ origin = "foreign" /\ ~IsUtf8(input)
    /\ explicit /\ pc = "reclaimed" /\ heap[ffi.raw].frees = 1

\* C11: byte-buffer conversion is a transfer of ownership that cannot
\* fail.  For every Vec<u8> the three operations return Ok; into_repr_c
\* returns the buffer's own (pointer, length, capacity) and allocates and
\* frees nothing; from_repr_c_owned on that triple allocates and frees
\* nothing and yields a Vec<u8> on the same allocation with the same
\* length, capacity and contents.
C11_ByteBufferTransfer ==
    /\ [](ty = "VecU8" =>
            /\ pc # "failed"
            /\ \A i \in 1..Len(clones) : clones[i].ok
            /\ pc = "reconstructed" =>
                 /\ res.ok /\ res.val = ffi
                 /\ res.val.len = Len(input.bytes)
                 /\ res.val.cap = Len(input.bytes) + input.spare
                 /\ BytesOf(heap, res.val) = input.bytes
                 /\ \A p \in Reach(ty, heap, ffi) : heap[p].frees = 0)
    /\ [][ty = "VecU8" /\ pc = "native" => heap' = heap /\ ffi' = nat]_vars
    /\ [][ty = "VecU8" /\ pc' = "reconstructed" => heap' = heap]_vars

C11_Witness ==
    /\ ty = "VecU8" /\ origin = "native" /\ pc = "reconstructed" /\ res.ok
    /\ Len(input.bytes) >= 2 /\ input.spare >= 1 /\ made >= 1

\* C12 as stated: OneFfi carries a destruction hook too, so a OneFfi made
\* by One::into_repr_c that goes out of scope without an explicit
\* reconstruction had a hook fire and its text allocation freed.
C12_OneFfiHasHook ==
    ty = "One" /\ origin = "native" /\ pc = "done" /\ ~explicit /\ ffi # None
        => hooks >= 1 /\ heap[ffi.a].frees = 1

\* C12: of the two foreign records only TwoFfi carries a destruction hook.
\* A TwoFfi that goes out of scope without an explicit reconstruction has
\* its hook fire once; a OneFfi that does so has no hook fire and its text
\* allocation is not freed.
C12_OnlyTwoFfiHasHook ==
    pc = "done" /\ ~explicit /\ ffi # None
        => /\ ty = "Two" => hooks = 1
           /\ ty = "One" => hooks = 0 /\ heap[ffi.a].frees = 0

C12_Witness ==
    /\ ty = "One" /\ origin = "native" /\ pc = "done" /\ ~explicit
    /\ ffi # None /\ hooks = 0 /\ heap[ffi.a].frees = 0

\* C13: Vec<T>::into_repr_c fails on the first element whose into_repr_c
\* fails, returns that element's error and no (pointer, length, capacity),
\* and releases on that path what was already converted and what was not
\* yet converted: once the error is discarded nothing is left un-freed.
C13_IntoErrorPathReleases ==
    ty = "VecOne" /\ origin = "native" /\ ~NoNulOnes(input)
        => /\ pc \in {"native", "failed", "done"}
           /\ ffi = None
           /\ pc = "failed" =>
                ~res.ok /\ res.err.t = "StringError" /\ res.err.e.t = "Null"
           /\ pc = "done" => \A p \in 1..Len(heap) : heap[p].frees = 1

SomeBadOne(ones) == \E i \in 1..Len(ones) : ~IsUtf8(ones[i].a)

\* C14: Vec<T>::from_repr_c_owned on an array with an element that is
\* no valid text fails; the array is freed exactly once, and once the
\* error is discarded every text of the array was freed exactly once:
\* those of the elements already reconstructed, that of the failing
\* element, and those of the elements after it.
C14_FromOwnedErrorPathCleansUp ==
    ty = "VecOne" /\ origin = "foreign" /\ SomeBadOne(input) /\ explicit
        => /\ pc = "reconstructed" => ~res.ok
           /\ heap[ffi.ptr].frees = 1
           /\ pc = "reclaimed" =>
                \A p \in Reach(ty, heap, ffi) : heap[p].frees = 1

\* C15: Two::into_repr_c converts a, b, c, d in that order and stops at
\* the first failure.  So when a cannot be converted, the error returned
\* is the one of a and nothing was allocated for the fields after it; and
\* whichever field fails, once the error is discarded no allocation is
\* left un-freed (nothing already converted is left without an owner).
C15_IntoDeclarationOrder ==
    ty = "Two" /\ origin = "native" /\ pc \in {"failed", "done"} /\ ffi = None
        => /\ NUL \in Range(input.a) =>
                /\ Len(heap) = Len(MkNative(ty, input).h)
                /\ pc = "failed" =>
                     res.err = IpcStringError(Null(MkNative(ty, input).val.a.ptr))
           /\ pc = "done" => \A p \in 1..Len(heap) : heap[p].frees = 1

\* the index of the first element that is no valid text
FirstBadOne(ones) ==
    CHOOSE i \in 1..Len(ones) :
        ~IsUtf8(ones[i].a) /\ \A j \in 1..(i - 1) : IsUtf8(ones[j].a)

\* the allocations reachable from the fields a, b, c of a TwoFfi
ReachA(f) == {f.a}
ReachB(f) == OwnedString(TripleB(f))
ReachC(h, f) == ReachVecOneFfi(h, TripleC(f))

\* C16: Two::from_repr_c_owned and Two::from_repr_c_cloned work through
\* a, b, c, d in that order and stop at the first field that fails.  They
\* return a Two exactly when all four fields are valid.  When the owned
\* reconstruction fails at a field, the fields after it were not touched
\* (nothing of them freed, nothing allocated for them) and the native
\* values of the fields before it were dropped (their allocations freed
\* once).  When the cloned reconstruction fails at a field, only the
\* fields before it (and the elements of c before the failing one) were
\* copied, and every copy was freed.
C16_FieldOrderShortCircuit ==
    /\ [](ty = "Two" /\ pc = "reconstructed" =>
            LET badA == ~IsUtf8(input.a)
                badC == SomeBadOne(input.c)
                badD == ~IsUtf8(input.d.a)
                once(S) == \A p \in S : heap[p].frees = 1
                never(S) == \A p \in S : heap[p].frees = 0
            IN  /\ res.ok <=> ~badA /\ ~badC /\ ~badD
                /\ badA =>
                     /\ never(ReachB(ffi) \cup ReachC(heap, ffi) \cup ReachOneFfi(ffi.d))
                     /\ Len(heap) = Len(MkForeign(ty, input).h)
                /\ ~badA /\ badC =>
                     /\ once(ReachA(ffi) \cup ReachB(ffi))
                     /\ never(ReachOneFfi(ffi.d))
                /\ ~badA /\ ~badC /\ badD =>
                     once(ReachA(ffi) \cup ReachB(ffi) \cup ReachC(heap, ffi)))
    /\ [][ty = "Two" /\ made' = made + 1 =>
            LET r == LastClone(clones')
                badA == ~IsUtf8(input.a)
                badC == SomeBadOne(input.c)
                badD == ~IsUtf8(input.d.a)
                new == (Len(heap) + 1)..Len(heap')
                nb == IF input.b = <<>> THEN 0 ELSE 1
            IN  /\ r.ok <=> ~badA /\ ~badC /\ ~badD
                /\ ~r.ok => \A p \in new : heap'[p].frees = 1
                /\ badA => heap' = heap
                /\ ~badA /\ badC =>
                     Cardinality(new) = 1 + nb + 1 + (FirstBadOne(input.c) - 1)]_vars

C16_Witness ==
    /\ ty = "Two" /\ origin = "foreign" /\ pc = "reconstructed" /\ ~res.ok
    /\ IsUtf8(input.a) /\ ~SomeBadOne(input.c) /\ ~IsUtf8(input.d.a)
    /\ Len(input.c) >= 1 /\ input.b # <<>> /\ made >= 1

\* the text pointers of a foreign value, in the order from_repr_c_owned
\* reconstructs them
TextPtrs(t, h, f) ==
    LET ptrs(c) == [i \in 1..Len(ElemsOf(h, c)) |-> ElemsOf(h, c)[i].a] IN
    CASE t = "One"    -> <<f.a>>
      [] t = "VecOne" -> ptrs(f)
      [] t = "Two"    -> <<f.a>> \o ptrs(TripleC(f)) \o <<f.d.a>>

\* the texts of a native value, in the order into_repr_c converts them
TextsInto(t, h, v) ==
    LET strs(c) == [i \in 1..Len(ElemsOf(h, c)) |-> ElemsOf(h, c)[i].a] IN
    CASE t = "One"    -> <<v.a>>
      [] t = "VecOne" -> strs(v)
      [] t = "Two"    -> strs(v.c) \o <<v.a>> \o <<v.d.a>>

\* the first element of s that satisfies Bad
First(s, Bad(_)) ==
    s[CHOOSE i \in 1..Len(s) : Bad(s[i]) /\ \A j \in 1..(i - 1) : ~Bad(s[j])]

\* C17: composite errors.  Every error an operation of One, Vec<One> or
\* Two returns is IpcError::StringError around the StringError of the one
\* text that failed first: the Null error that owns the first text with a
\* terminator inside (into_repr_c), the IntoString error that owns the
\* first buffer that is no valid text (from_repr_c_owned), the Utf8 error
\* (from_repr_c_cloned).  No operation returns IpcError::U8Error.
C17_CompositeError ==
    ty \in {"One", "VecOne", "Two"} =>
        /\ pc = "failed" =>
             LET m == MkNative(ty, input)
                 HasNul(str) == NUL \in Range(BytesOf(m.h, str))
             IN  res.err = IpcStringError(Null(First(TextsInto(ty, m.h, m.val), HasNul).ptr))
        /\ pc = "reconstructed" /\ ~res.ok =>
             LET NoText(p) == ~IsUtf8(SubSeq(heap[p].bytes, 1, Strlen(heap[p].bytes)))
             IN  res.err = IpcStringError(IntoString(First(TextPtrs(ty, heap, ffi), NoText)))
        /\ \A i \in 1..Len(clones) :
             ~clones[i].ok => clones[i].err = IpcStringError(Utf8Error)

C17_Witness ==
    /\ ty = "Two" /\ origin = "foreign" /\ pc = "reconstructed" /\ ~res.ok
    /\ IsUtf8(input.a) /\ SomeBadOne(input.c) /\ ~IsUtf8(input.d.a)
    /\ Len(input.c) >= 2 /\ FirstBadOne(input.c) = 2

\* C18: the hook fires at most once and never nests.  The hook runs at
\* most once for the foreign value, and only when that value goes out of
\* scope; a reconstruction runs no hook, neither for the TwoFfi nor for
\* the elements of c or the nested d, so that after one reconstruction -
\* the explicit one, or the one inside the hook - and the drop of its
\* result no allocation has been freed twice.
C18_HookAtMostOnce ==
    /\ [](hooks <= 1)
    /\ [](pc \in {"reconstructed", "reclaimed", "forgotten"} =>
            /\ hooks = 0
            /\ \A p \in 1..Len(heap) : heap[p].frees <= 1)
    /\ [](pc = "done" /\ ~explicit =>
            \A p \in 1..Len(heap) : heap[p].frees <= 1)
    /\ [][pc' = "reconstructed" => hooks' = hooks]_vars
    /\ [][hooks' # hooks =>
            /\ hooks' = hooks + 1
            /\ ty = "Two" /\ ~moved
            /\ pc' \in {"done", "aborted"}]_vars

C18_Witness ==
    /\ ty = "Two" /\ origin = "native" /\ pc = "done" /\ ~explicit
    /\ ffi # None /\ hooks = 1 /\ Len(input.c) >= 2
    /\ \A p \in Reach(ty, heap, ffi) : heap[p].frees = 1

\* C19: Two::from_repr_c_owned leaves the TwoFfi unchanged.  The call
\* writes no field of the foreign value, whether it returns Ok or Err, and
\* nothing later does: the text pointer still holds the address of the
\* freed text, and after a reconstruction that failed inside c the same
\* record has the text of a freed and the text of d not freed.
C19_HandleUnchanged ==
    /\ [][pc = "foreign" /\ pc' = "reconstructed" => ffi' = ffi]_vars
    /\ [][pc # "native" => ffi' = ffi]_vars
    /\ [](ty = "Two" /\ pc = "reclaimed" =>
            /\ ffi.a # Dangling /\ heap[ffi.a].frees = 1
            /\ origin = "foreign" /\ IsUtf8(input.a) /\ SomeBadOne(input.c) =>
                 heap[ffi.d.a].frees = 0)

C19_Witness ==
    /\ ty = "Two" /\ origin = "foreign" /\ pc = "reclaimed"
    /\ IsUtf8(input.a) /\ SomeBadOne(input.c)
    /\ ffi = MkForeign(ty, input).val
    /\ heap[ffi.a].frees = 1 /\ heap[ffi.d.a].frees = 0

====
